---- MODULE Spec2Model ----
(***************************************************************************)
(* slogplus: the text Handler of handler.go as a state machine.            *)
(*                                                                         *)
(* A line is a sequence of tokens.  Every string the code appends as one   *)
(* unit (a key, a group name, a message, a string value) is one token, the *)
(* separators ' ', '.', '=', ':', '/', '{', '}' and '\n' are tokens of     *)
(* their own and numbers are sequences of digit tokens.                    *)
(***************************************************************************)
EXTENDS Integers, Sequences, FiniteSets, TLC

(* ------------------------------ bounds --------------------------------- *)

\* handlers that exist at the same time (the base handler and its descendants)
MaxHandlers == 3

\* Handle calls made by one goroutine
MaxCalls == 1

(* --------------------------- slog data types --------------------------- *)

\* slog.Value: kind plus the payload of that kind
StringValue(s) == [kind |-> "String", str |-> s, num |-> 0, grp |-> <<>>]

Int64Value(n) == [kind |-> "Int64", str |-> "", num |-> n, grp |-> <<>>]

BoolValue(b) == [kind |-> "Bool", str |-> IF b THEN "true" ELSE "false", num |-> 0, grp |-> <<>>]

GroupValue(as) == [kind |-> "Group", str |-> "", num |-> 0, grp |-> as]

\* the zero slog.Value: KindAny holding nil
NilValue == [kind |-> "Any", str |-> "", num |-> 0, grp |-> <<>>]

Attr(k, v) == [key |-> k, val |-> v]

\* slog.Attr{}
EmptyAttr == Attr("", NilValue)

\* Attr.Equal(slog.Attr{})
IsEmptyAttr(a) == a.key = "" /\ a.val = NilValue

\* time.Time as its calendar fields; the zero Time is January 1, year 1, 00:00:00
ZeroTime == [year |-> 1, month |-> 1, day |-> 1, hour |-> 0, min |-> 0, sec |-> 0]

IsZero(t) == t = ZeroTime

\* slog.Level values
LevelDebug == -4

LevelInfo == 0

LevelWarn == 4

LevelError == 8

Levels == {LevelDebug, LevelInfo, LevelWarn, LevelError}

\* slog.Leveler values of Options.Level: nil, a constant slog.Level, or the *LevelVar
LevelerNil == [kind |-> "nil", level |-> 0]

LevelerConst(l) == [kind |-> "level", level |-> l]

LevelerVar == [kind |-> "var", level |-> 0]

\* Level.String() for the four named levels
LevelString(l) ==
  CASE l = LevelDebug -> "DEBUG"
    [] l = LevelInfo -> "INFO"
    [] l = LevelWarn -> "WARN"
    [] l = LevelError -> "ERROR"

\* runtime.CallersFrames([]uintptr{pc}).Next(): pc 1 resolves, any other pc has no file
FrameOf(p) == IF p = 1 THEN [File |-> "main.go", Line |-> 42] ELSE [File |-> "", Line |-> 0]

(* ------------------------------ Options -------------------------------- *)

DefaultTimeFormat == "2006/01/02 15:04:05"

ClockTimeFormat == "15:04:05"

\* ReplaceAttr hooks: nil, the hook of TestHandler_ReplaceAttr, and a masking hook
HookNil == "nil"

HookDrop == "drop"

HookMask == "mask"

\* h.opts.ReplaceAttr(groups, a)
ReplaceAttr(hook, groups, a) ==
  CASE hook = HookDrop -> IF a.key = "password" THEN EmptyAttr ELSE a
    [] hook = HookMask -> IF a.key = "password" THEN Attr(a.key, StringValue("***")) ELSE a
    [] OTHER -> a

(* --------------------------- number formatting ------------------------- *)

DigitChar(d) == <<"0", "1", "2", "3", "4", "5", "6", "7", "8", "9">>[d + 1]

RECURSIVE Digits(_)
Digits(n) == IF n < 10 THEN <<DigitChar(n)>> ELSE Digits(n \div 10) \o <<DigitChar(n % 10)>>

\* strconv.AppendInt(buf, n, 10)
AppendInt(buf, n) == IF n < 0 THEN buf \o <<"-">> \o Digits(0 - n) ELSE buf \o Digits(n)

\* the byte the padding loop appends before the copy
NUL == "\\0"

\* appendInt(buf, n, width): append n, then shift it right over NUL padding and fill with '0'
appendInt(buf, n, width) ==
  LET start == Len(buf)
      b1 == AppendInt(buf, n)
      actual == Len(b1) - start
  IN IF actual < width
       THEN LET padding == width - actual
                b2 == b1 \o [i \in 1..padding |-> NUL]
                \* copy(buf[start+padding:], buf[start:len(buf)-padding])
                b3 == [i \in 1..Len(b2) |-> IF i > start + padding THEN b2[i - padding] ELSE b2[i]]
            IN [i \in 1..Len(b3) |-> IF i > start /\ i <= start + padding THEN "0" ELSE b3[i]]
       ELSE b1

\* t.Format(layout) for the layout "15:04:05"
FormatClock(t) ==
  appendInt(appendInt(appendInt(<<>>, t.hour, 2) \o <<":">>, t.min, 2) \o <<":">>, t.sec, 2)

\* appendTime(buf, t)
appendTime(opts, buf, t) ==
  IF opts.TimeFormat = DefaultTimeFormat
    THEN LET b1 == appendInt(buf, t.year, 4) \o <<"/">>
             b2 == appendInt(b1, t.month, 2) \o <<"/">>
             b3 == appendInt(b2, t.day, 2) \o <<" ">>
             b4 == appendInt(b3, t.hour, 2) \o <<":">>
             b5 == appendInt(b4, t.min, 2) \o <<":">>
         IN appendInt(b5, t.sec, 2)
    ELSE buf \o FormatClock(t)

(* ------------------------------ encoding ------------------------------- *)

RECURSIVE appendGroupEntries(_, _, _)
RECURSIVE appendValue(_, _)

\* appendValue(buf, v)
appendValue(buf, v) ==
  CASE v.kind = "String" -> buf \o <<v.str>>
    [] v.kind = "Int64" -> AppendInt(buf, v.num)
    [] v.kind = "Bool" -> buf \o <<v.str>>
    [] v.kind = "Group" ->
         IF Len(v.grp) = 0
           THEN buf
           ELSE appendGroupEntries(buf \o <<"{">>, v.grp, 1) \o <<"}">>
    [] OTHER -> buf \o <<"<nil>">>

RECURSIVE appendGroupEntriesTrailing(_, _, _)
\* the loop of the KindGroup case with the separator after every entry
appendGroupEntriesTrailing(buf, attrs, i) ==
  IF i > Len(attrs)
    THEN buf
    ELSE LET b2 == buf \o <<attrs[i].key, "=">>
         IN appendGroupEntriesTrailing(appendValue(b2, attrs[i].val) \o <<" ">>, attrs, i + 1)

\* the loop of the KindGroup case, from entry i on
appendGroupEntries(buf, attrs, i) ==
  IF i > Len(attrs)
    THEN buf
    ELSE LET b1 == IF i > 1 THEN buf \o <<" ">> ELSE buf
             b2 == b1 \o <<attrs[i].key, "=">>
         IN appendGroupEntries(appendValue(b2, attrs[i].val), attrs, i + 1)

RECURSIVE appendGroups(_, _)
\* the group loop of appendAttr: every segment followed by '.'
appendGroups(buf, groups) ==
  IF groups = <<>> THEN buf ELSE appendGroups(buf \o <<Head(groups), ".">>, Tail(groups))

\* appendAttr with the separator appended before the empty-attribute check
appendAttrSeparatorFirst(opts, buf, groups, a) ==
  LET a1 == IF opts.ReplaceAttr # HookNil THEN ReplaceAttr(opts.ReplaceAttr, groups, a) ELSE a
  IN IF IsEmptyAttr(a1)
       THEN buf \o <<" ">>
       ELSE appendValue(appendGroups(buf \o <<" ">>, groups) \o <<a1.key, "=">>, a1.val)

\* appendAttr(buf, groups, a)
appendAttr(opts, buf, groups, a) ==
  LET a1 == IF opts.ReplaceAttr # HookNil THEN ReplaceAttr(opts.ReplaceAttr, groups, a) ELSE a
  IN IF IsEmptyAttr(a1)
       THEN buf
       ELSE appendValue(appendGroups(buf \o <<" ">>, groups) \o <<a1.key, "=">>, a1.val)

RECURSIVE appendAttrs(_, _, _, _)
\* the two attribute loops of Handle: appendAttr over a sequence, in order
appendAttrs(opts, buf, groups, attrs) ==
  IF attrs = <<>>
    THEN buf
    ELSE appendAttrs(opts, appendAttr(opts, buf, groups, Head(attrs)), groups, Tail(attrs))

\* Handle, step 1: the timestamp
HandleTime(h, r, buf) ==
  IF h.opts.TimeFormat # "" /\ ~IsZero(r.Time)
    THEN appendTime(h.opts, buf, r.Time) \o <<" ">>
    ELSE buf

\* Handle, step 2: the level
HandleLevel(h, r, buf) == buf \o <<LevelString(r.Level), " ">>

\* Handle, step 3: the source location
HandleSource(h, r, buf) ==
  IF h.opts.AddSource /\ r.PC # 0
    THEN LET f == FrameOf(r.PC)
         IN IF f.File # ""
              THEN AppendInt(buf \o <<"source=", f.File, ":">>, f.Line) \o <<" ">>
              ELSE buf
    ELSE buf

\* Handle, step 4: the attributes bound by WithAttrs
HandleBound(h, buf) == appendAttrs(h.opts, buf, h.groups, h.attrs)

\* Handle, step 5: the message
HandleMsg(r, buf) == buf \o <<"msg=", r.Message>>

\* Handle, step 6: the attributes of the record
HandleCall(h, r, buf) == appendAttrs(h.opts, buf, h.groups, r.Attrs)

\* Handle with the message step in front of the bound attributes
HandleLineMsgFirst(h, r, buf) ==
  LET b1 == HandleTime(h, r, buf)
      b2 == HandleLevel(h, r, b1)
      b3 == HandleSource(h, r, b2)
      b4 == HandleMsg(r, b3)
      b5 == HandleBound(h, b4)
      b6 == HandleCall(h, r, b5)
  IN b6 \o <<"\n">>

\* Handle, steps 1 to 7: the line composed into the scratch buffer
HandleLine(h, r, buf) ==
  LET b1 == HandleTime(h, r, buf)
      b2 == HandleLevel(h, r, b1)
      b3 == HandleSource(h, r, b2)
      b4 == HandleBound(h, b3)
      b5 == HandleMsg(r, b4)
      b6 == HandleCall(h, r, b5)
  IN b6 \o <<"\n">>

\* appendAttr called after the encoding instead of before it
appendAttrTraceLate(opts, tr, groups, a) ==
  LET t1 == IF IsEmptyAttr(a) THEN tr ELSE tr \o <<[ev |-> "encode", arg |-> a]>>
  IN IF opts.ReplaceAttr # HookNil THEN t1 \o <<[ev |-> "hook", arg |-> a]>> ELSE t1

\* the hook call and the encoding appendAttr makes for one attribute, added to tr
appendAttrTrace(opts, tr, groups, a) ==
  LET t1 == IF opts.ReplaceAttr # HookNil THEN tr \o <<[ev |-> "hook", arg |-> a]>> ELSE tr
      a1 == IF opts.ReplaceAttr # HookNil THEN ReplaceAttr(opts.ReplaceAttr, groups, a) ELSE a
  IN IF IsEmptyAttr(a1) THEN t1 ELSE t1 \o <<[ev |-> "encode", arg |-> a1]>>

RECURSIVE appendAttrsTrace(_, _, _, _)
\* the two attribute loops of Handle, as the calls they make
appendAttrsTrace(opts, tr, groups, attrs) ==
  IF attrs = <<>>
    THEN tr
    ELSE appendAttrsTrace(opts, appendAttrTrace(opts, tr, groups, Head(attrs)), groups, Tail(attrs))

\* Handle, steps 2 to 6, as the hook calls and encodings they make: the level, the bound
\* attributes, the message, the attributes of the record
HandleTrace(h, r) ==
  LET t2 == <<[ev |-> "level", arg |-> EmptyAttr]>>
      t4 == appendAttrsTrace(h.opts, t2, h.groups, h.attrs)
      t5 == t4 \o <<[ev |-> "msg", arg |-> EmptyAttr]>>
  IN appendAttrsTrace(h.opts, t5, h.groups, r.Attrs)

(* ----------------------------- the handlers ---------------------------- *)

\* goroutines that call Handle
Threads == {"t1", "t2"}

\* the unlocked state of a sync.Mutex
NoThread == "none"

\* the io.Writer and the sync.Pool that New is given and creates
TheOut == "out"

ThePool == "pool"

\* results of io.Writer.Write
ErrNil == "nil"

ErrWrite == "EIO"

NoRecord == [Level |-> LevelInfo, Time |-> ZeroTime, PC |-> 0, Message |-> "", Attrs |-> <<>>]

VARIABLES
  options,    \* the Options value the caller passed to New
  handlers,   \* every Handler allocated so far; a *Handler is an index into it
  call,       \* the latest New / WithAttrs / WithGroup call: receiver, argument, returned *Handler
  pool,       \* the buffers lying in the sync.Pool
  nbuf,       \* the number of buffers the pool's New function has allocated
  writing,    \* per destination, the goroutines that are inside its Write
  pc,         \* per goroutine, its position in Handle
  hid,        \* per goroutine, the receiver h of its Handle call
  rec,        \* per goroutine, the record r of its Handle call
  bufp,       \* per goroutine, the pooled buffer it holds (0: none)
  buf,        \* per goroutine, the local slice buf
  nwrite,     \* per goroutine, the Write calls of its current Handle call
  nput,       \* per goroutine, the pool.Put calls of its current Handle call
  werr,       \* per goroutine, what the destination's Write returned
  ret,        \* per goroutine, what its Handle call returned
  ncalls,     \* per goroutine, the Handle calls it has started
  slices,     \* per pooled buffer, the slice stored behind its pointer
  trace,      \* per goroutine, the hook calls and encodings of its Handle call so far
  levelVar,   \* the level held by the LevelVar made by NewLevelVar
  enabled     \* the latest Enabled call: receiver, level, result

vars == <<options, handlers, call, pool, nbuf, writing, pc, hid, rec, bufp, buf, nwrite, nput, werr, ret, ncalls,
          slices, trace, levelVar, enabled>>

hvars == <<options, handlers, call>>

tvars == <<pool, nbuf, writing, pc, hid, rec, bufp, buf, nwrite, nput, werr, ret, ncalls, slices, trace>>

lvars == <<levelVar, enabled>>

\* NewLevelVar(level): the level the new LevelVar holds
NewLevelVar(level) == level

\* New that reads the level once and keeps the value
NewSnapshotLevel(out, opts) ==
  [opts |-> [opts EXCEPT !.TimeFormat = IF @ = "" THEN DefaultTimeFormat ELSE @,
                         !.Level = IF @.kind = "var" THEN LevelerConst(levelVar) ELSE @],
   mu |-> NoThread,
   out |-> out,
   pool |-> ThePool,
   groups |-> <<>>,
   attrs |-> <<>>]

\* New(out, opts): the handler it returns
New(out, opts) ==
  [opts |-> IF opts.TimeFormat = "" THEN [opts EXCEPT !.TimeFormat = DefaultTimeFormat] ELSE opts,
   mu |-> NoThread,
   out |-> out,
   pool |-> ThePool,
   groups |-> <<>>,
   attrs |-> <<>>]

\* the Handler literal of WithAttrs with the new attributes put first
WithAttrsHandlerPrepend(h, attrs) ==
  [opts |-> h.opts, mu |-> NoThread, out |-> h.out, pool |-> h.pool,
   groups |-> h.groups,
   attrs |-> attrs \o h.attrs]

\* the Handler literal of WithAttrs
WithAttrsHandler(h, attrs) ==
  [opts |-> h.opts, mu |-> NoThread, out |-> h.out, pool |-> h.pool,
   groups |-> h.groups,
   attrs |-> h.attrs \o attrs]

\* the Handler literal of WithGroup with the new name put first
WithGroupHandlerPrepend(h, name) ==
  [opts |-> h.opts, mu |-> NoThread, out |-> h.out, pool |-> h.pool,
   groups |-> <<name>> \o h.groups,
   attrs |-> h.attrs]

\* the Handler literal of WithGroup
WithGroupHandler(h, name) ==
  [opts |-> h.opts, mu |-> NoThread, out |-> h.out, pool |-> h.pool,
   groups |-> h.groups \o <<name>>,
   attrs |-> h.attrs]

\* WithAttrs that appends to the receiver's own attrs before copying them
WithAttrsInPlace(i, attrs) ==
  /\ i \in 1..Len(handlers)
  /\ IF Len(attrs) = 0
       THEN /\ call' = [op |-> "WithAttrs", recv |-> i, attrs |-> attrs, name |-> "", res |-> i]
            /\ UNCHANGED handlers
       ELSE /\ Len(handlers) < MaxHandlers
            /\ handlers' = Append([handlers EXCEPT ![i].attrs = @ \o attrs],
                                  WithAttrsHandler(handlers[i], attrs))
            /\ call' = [op |-> "WithAttrs", recv |-> i, attrs |-> attrs, name |-> "",
                        res |-> Len(handlers) + 1]
  /\ UNCHANGED <<options, tvars, lvars>>

\* h.WithAttrs(attrs) on the handler i
WithAttrs(i, attrs) ==
  /\ i \in 1..Len(handlers)
  /\ IF Len(attrs) = 0
       THEN /\ call' = [op |-> "WithAttrs", recv |-> i, attrs |-> attrs, name |-> "", res |-> i]
            /\ UNCHANGED handlers
       ELSE /\ Len(handlers) < MaxHandlers
            /\ handlers' = Append(handlers, WithAttrsHandler(handlers[i], attrs))
            /\ call' = [op |-> "WithAttrs", recv |-> i, attrs |-> attrs, name |-> "",
                        res |-> Len(handlers) + 1]
  /\ UNCHANGED <<options, tvars, lvars>>

\* WithGroup without the early return for the empty name
WithGroupAlwaysNew(i, name) ==
  /\ i \in 1..Len(handlers)
  /\ Len(handlers) < MaxHandlers
  /\ handlers' = Append(handlers, WithGroupHandler(handlers[i], name))
  /\ call' = [op |-> "WithGroup", recv |-> i, attrs |-> <<>>, name |-> name,
              res |-> Len(handlers) + 1]
  /\ UNCHANGED <<options, tvars, lvars>>

\* h.WithGroup(name) on the handler i
WithGroup(i, name) ==
  /\ i \in 1..Len(handlers)
  /\ IF name = ""
       THEN /\ call' = [op |-> "WithGroup", recv |-> i, attrs |-> <<>>, name |-> name, res |-> i]
            /\ UNCHANGED handlers
       ELSE /\ Len(handlers) < MaxHandlers
            /\ handlers' = Append(handlers, WithGroupHandler(handlers[i], name))
            /\ call' = [op |-> "WithGroup", recv |-> i, attrs |-> <<>>, name |-> name,
                        res |-> Len(handlers) + 1]
  /\ UNCHANGED <<options, tvars, lvars>>

(* ------------------------------- Enabled ------------------------------- *)

\* h.opts.Level.Level(): a slog.Level is its own level, the *LevelVar gives the level it holds now
LevelOf(lv) == IF lv.kind = "var" THEN levelVar ELSE lv.level

\* the body of Enabled
EnabledResult(h, level) ==
  LET minLevel == IF h.opts.Level # LevelerNil THEN LevelOf(h.opts.Level) ELSE LevelInfo
  IN level >= minLevel

\* h.Enabled(ctx, level) on the handler i
Enabled(i, level) ==
  /\ i \in 1..Len(handlers)
  /\ enabled' = [recv |-> i, level |-> level, res |-> EnabledResult(handlers[i], level)]
  /\ UNCHANGED <<hvars, tvars, levelVar>>

\* levelVar.Set(l)
LevelVarSet(l) ==
  /\ levelVar' = l
  /\ UNCHANGED <<hvars, tvars, enabled>>

(* -------------------------------- Handle ------------------------------- *)

\* the pool's New function: make([]byte, 0, 256)
PoolNew == <<>>

\* s[:0]
Reslice0(s) == SubSeq(s, 1, 0)

\* Handle whose pool.Get leaves the buffer in the pool
HandleGetShared(t, i, r) ==
  /\ pc[t] \in {"idle", "done"}
  /\ ncalls[t] < MaxCalls
  /\ i \in 1..Len(handlers)
  /\ \E b \in pool \cup {nbuf + 1} :
       /\ bufp' = [bufp EXCEPT ![t] = b]
       /\ pool' = pool
       /\ nbuf' = IF b \in pool THEN nbuf ELSE nbuf + 1
       /\ slices' = IF b \in pool THEN slices ELSE Append(slices, PoolNew)
       /\ buf' = [buf EXCEPT ![t] = Reslice0(slices'[b])]
  /\ trace' = [trace EXCEPT ![t] = <<>>]
  /\ hid' = [hid EXCEPT ![t] = i]
  /\ rec' = [rec EXCEPT ![t] = r]
  /\ nwrite' = [nwrite EXCEPT ![t] = 0]
  /\ nput' = [nput EXCEPT ![t] = 0]
  /\ werr' = [werr EXCEPT ![t] = ErrNil]
  /\ ret' = [ret EXCEPT ![t] = ErrNil]
  /\ ncalls' = [ncalls EXCEPT ![t] = @ + 1]
  /\ pc' = [pc EXCEPT ![t] = "lock"]
  /\ UNCHANGED <<lvars, hvars, writing>>

\* h.pool.Get() and buf := (*bufp)[:0]: a pooled buffer, or a new one from the pool's New
HandleGet(t, i, r) ==
  /\ pc[t] \in {"idle", "done"}
  /\ ncalls[t] < MaxCalls
  /\ i \in 1..Len(handlers)
  /\ \E b \in pool \cup {nbuf + 1} :
       /\ bufp' = [bufp EXCEPT ![t] = b]
       /\ pool' = pool \ {b}
       /\ nbuf' = IF b \in pool THEN nbuf ELSE nbuf + 1
       /\ slices' = IF b \in pool THEN slices ELSE Append(slices, PoolNew)
       /\ buf' = [buf EXCEPT ![t] = Reslice0(slices'[b])]
  /\ trace' = [trace EXCEPT ![t] = <<>>]
  /\ hid' = [hid EXCEPT ![t] = i]
  /\ rec' = [rec EXCEPT ![t] = r]
  /\ nwrite' = [nwrite EXCEPT ![t] = 0]
  /\ nput' = [nput EXCEPT ![t] = 0]
  /\ werr' = [werr EXCEPT ![t] = ErrNil]
  /\ ret' = [ret EXCEPT ![t] = ErrNil]
  /\ ncalls' = [ncalls EXCEPT ![t] = @ + 1]
  /\ pc' = [pc EXCEPT ![t] = "lock"]
  /\ UNCHANGED <<lvars, hvars, writing>>

\* Lock that does not wait for the mutex to be free
HandleLockNoWait(t) ==
  /\ pc[t] = "lock"
  /\ handlers' = [handlers EXCEPT ![hid[t]].mu = t]
  /\ pc' = [pc EXCEPT ![t] = "compose"]
  /\ UNCHANGED <<lvars, options, call, pool, nbuf, writing, hid, rec, bufp, buf, nwrite, nput, werr, ret, ncalls, slices, trace>>

\* h.mu.Lock()
HandleLock(t) ==
  /\ pc[t] = "lock"
  /\ handlers[hid[t]].mu = NoThread
  /\ handlers' = [handlers EXCEPT ![hid[t]].mu = t]
  /\ pc' = [pc EXCEPT ![t] = "compose"]
  /\ UNCHANGED <<lvars, options, call, pool, nbuf, writing, hid, rec, bufp, buf, nwrite, nput, werr, ret, ncalls, slices, trace>>

\* steps 1 to 7: the line is composed into buf
HandleCompose(t) ==
  /\ pc[t] = "compose"
  /\ buf' = [buf EXCEPT ![t] = HandleLine(handlers[hid[t]], rec[t], buf[t])]
  /\ pc' = [pc EXCEPT ![t] = "write"]
  /\ trace' = [trace EXCEPT ![t] = HandleTrace(handlers[hid[t]], rec[t])]
  /\ UNCHANGED <<lvars, hvars, pool, nbuf, writing, hid, rec, bufp, nwrite, nput, werr, ret, ncalls, slices>>

\* h.out.Write(buf) is entered
HandleWrite(t) ==
  /\ pc[t] = "write"
  /\ writing' = [writing EXCEPT ![handlers[hid[t]].out] = @ \cup {t}]
  /\ nwrite' = [nwrite EXCEPT ![t] = @ + 1]
  /\ pc' = [pc EXCEPT ![t] = "inwrite"]
  /\ UNCHANGED <<lvars, hvars, pool, nbuf, hid, rec, bufp, buf, nput, werr, ret, ncalls, slices, trace>>

\* Handle that swallows the error of Write
HandleResultNil(e) == ErrNil

\* return err
HandleResult(e) == e

\* h.out.Write(buf) returns e, and Handle executes return err
HandleWriteReturn(t, e) ==
  /\ pc[t] = "inwrite"
  /\ writing' = [writing EXCEPT ![handlers[hid[t]].out] = @ \ {t}]
  /\ werr' = [werr EXCEPT ![t] = e]
  /\ ret' = [ret EXCEPT ![t] = HandleResult(e)]
  /\ pc' = [pc EXCEPT ![t] = "unlock"]
  /\ UNCHANGED <<lvars, hvars, pool, nbuf, hid, rec, bufp, buf, nwrite, nput, ncalls, slices, trace>>

\* Handle that unlocks only after a successful Write
HandleUnlockOnSuccess(t) ==
  /\ pc[t] = "unlock"
  /\ handlers' = [handlers EXCEPT ![hid[t]].mu = IF werr[t] = ErrNil THEN NoThread ELSE @]
  /\ pc' = [pc EXCEPT ![t] = "put"]
  /\ UNCHANGED <<lvars, options, call, pool, nbuf, writing, hid, rec, bufp, buf, nwrite, nput, werr, ret, ncalls, slices, trace>>

\* the deferred h.mu.Unlock()
HandleUnlock(t) ==
  /\ pc[t] = "unlock"
  /\ handlers' = [handlers EXCEPT ![hid[t]].mu = NoThread]
  /\ pc' = [pc EXCEPT ![t] = "put"]
  /\ UNCHANGED <<lvars, options, call, pool, nbuf, writing, hid, rec, bufp, buf, nwrite, nput, werr, ret, ncalls, slices, trace>>

\* Handle that puts the buffer back only after a successful Write
HandlePutOnSuccess(t) ==
  /\ pc[t] = "put"
  /\ IF werr[t] = ErrNil
       THEN /\ pool' = pool \cup {bufp[t]}
            /\ nput' = [nput EXCEPT ![t] = @ + 1]
       ELSE UNCHANGED <<pool, nput>>
  /\ bufp' = [bufp EXCEPT ![t] = 0]
  /\ slices' = [slices EXCEPT ![bufp[t]] = buf[t]]
  /\ trace' = [trace EXCEPT ![t] = <<>>]
  /\ buf' = [buf EXCEPT ![t] = <<>>]
  /\ hid' = [hid EXCEPT ![t] = 0]
  /\ rec' = [rec EXCEPT ![t] = NoRecord]
  /\ pc' = [pc EXCEPT ![t] = "done"]
  /\ UNCHANGED <<lvars, hvars, nbuf, writing, nwrite, werr, ret, ncalls>>

\* the deferred *bufp = buf; h.pool.Put(bufp); then Handle returns
HandlePut(t) ==
  /\ pc[t] = "put"
  /\ pool' = pool \cup {bufp[t]}
  /\ nput' = [nput EXCEPT ![t] = @ + 1]
  /\ bufp' = [bufp EXCEPT ![t] = 0]
  /\ slices' = [slices EXCEPT ![bufp[t]] = buf[t]]
  /\ trace' = [trace EXCEPT ![t] = <<>>]
  /\ buf' = [buf EXCEPT ![t] = <<>>]
  /\ hid' = [hid EXCEPT ![t] = 0]
  /\ rec' = [rec EXCEPT ![t] = NoRecord]
  /\ pc' = [pc EXCEPT ![t] = "done"]
  /\ UNCHANGED <<lvars, hvars, nbuf, writing, nwrite, werr, ret, ncalls>>

(* ---------------------------- specifications --------------------------- *)

aService == Attr("service", StringValue("api"))

aPassword == Attr("password", StringValue("secret"))

aEmptyGroup == Attr("g", GroupValue(<<>>))

aMethod == Attr("method", StringValue("GET"))

aPath == Attr("path", StringValue("/x"))

aUser == Attr("user", GroupValue(<<Attr("id", Int64Value(7)),
                                   Attr("role", GroupValue(<<Attr("admin", BoolValue(TRUE))>>))>>))

Now == [year |-> 2025, month |-> 11, day |-> 14, hour |-> 14, min |-> 3, sec |-> 14]

ZeroOptions == [Level |-> LevelerNil, TimeFormat |-> "", AddSource |-> FALSE, ReplaceAttr |-> HookNil]

\* the state after h := New(out, &o)
InitOver(O) ==
  /\ options \in O
  /\ levelVar = NewLevelVar(LevelInfo)
  /\ enabled = [recv |-> 0, level |-> LevelInfo, res |-> FALSE]
  /\ handlers = <<New(TheOut, options)>>
  /\ call = [op |-> "New", recv |-> 0, attrs |-> <<>>, name |-> "", res |-> 1]
  /\ pool = {}
  /\ nbuf = 0
  /\ slices = <<>>
  /\ trace = [t \in Threads |-> <<>>]
  /\ writing = [d \in {TheOut} |-> {}]
  /\ pc = [t \in Threads |-> "idle"]
  /\ hid = [t \in Threads |-> 0]
  /\ rec = [t \in Threads |-> NoRecord]
  /\ bufp = [t \in Threads |-> 0]
  /\ buf = [t \in Threads |-> <<>>]
  /\ nwrite = [t \in Threads |-> 0]
  /\ nput = [t \in Threads |-> 0]
  /\ werr = [t \in Threads |-> ErrNil]
  /\ ret = [t \in Threads |-> ErrNil]
  /\ ncalls = [t \in Threads |-> 0]

\* the steps of the goroutines T with records R, attribute lists B and group names G
NextOver(T, R, B, G) ==
  \/ \E i \in 1..MaxHandlers, as \in B : WithAttrs(i, as)
  \/ \E i \in 1..MaxHandlers, n \in G : WithGroup(i, n)
  \/ \E t \in T, i \in 1..MaxHandlers, r \in R : HandleGet(t, i, r)
  \/ \E t \in T : HandleLock(t)
  \/ \E t \in T : HandleCompose(t)
  \/ \E t \in T : HandleWrite(t)
  \/ \E t \in T, e \in {ErrNil, ErrWrite} : HandleWriteReturn(t, e)
  \/ \E t \in T : HandleUnlock(t)
  \/ \E t \in T : HandlePut(t)

\* two goroutines logging through a base handler and its descendants
Records == {[Level |-> LevelInfo, Time |-> Now, PC |-> 0, Message |-> "svc up", Attrs |-> <<aMethod>>]}

BindLists == {<<>>, <<aService>>}

GroupNames == {"", "request"}

Init == InitOver({ZeroOptions})

Next == NextOver(Threads, Records, BindLists, GroupNames)

Spec == Init /\ [][Next]_vars

\* one goroutine; the zero Options, each option set alone, and all of them set
FmtOptions ==
  {ZeroOptions,
   [ZeroOptions EXCEPT !.TimeFormat = ClockTimeFormat],
   [ZeroOptions EXCEPT !.AddSource = TRUE],
   [ZeroOptions EXCEPT !.ReplaceAttr = HookDrop],
   [ZeroOptions EXCEPT !.ReplaceAttr = HookMask],
   [Level |-> LevelerNil, TimeFormat |-> ClockTimeFormat, AddSource |-> TRUE, ReplaceAttr |-> HookDrop]}

\* a record with time, source location and attributes, and the records that differ from it in one field
BaseRecord ==
  [Level |-> LevelInfo, Time |-> Now, PC |-> 1, Message |-> "svc up", Attrs |-> <<aMethod, aPath>>]

FmtRecords ==
  {BaseRecord,
   [BaseRecord EXCEPT !.Level = LevelError],
   [BaseRecord EXCEPT !.Time = ZeroTime],
   [BaseRecord EXCEPT !.PC = 0],
   [BaseRecord EXCEPT !.Attrs = <<>>],
   [BaseRecord EXCEPT !.Attrs = <<aPassword, aUser>>]}

FmtBindLists == {<<>>, <<aService>>, <<aPassword, aEmptyGroup>>}

FmtGroupNames == {"", "request"}

InitFmt == InitOver(FmtOptions)

NextFmt == NextOver({"t1"}, FmtRecords, FmtBindLists, FmtGroupNames)

SpecFmt == InitFmt /\ [][NextFmt]_vars

\* a handler family whose level is nil, a constant or the LevelVar: handlers are derived
\* while LevelVar.Set and Enabled calls go on
LevelOptions ==
  {ZeroOptions,
   [ZeroOptions EXCEPT !.Level = LevelerConst(LevelWarn)],
   [ZeroOptions EXCEPT !.Level = LevelerVar]}

InitLevel == InitOver(LevelOptions)

NextLevel ==
  \/ \E i \in 1..MaxHandlers, as \in BindLists : WithAttrs(i, as)
  \/ \E i \in 1..MaxHandlers, n \in GroupNames : WithGroup(i, n)
  \/ \E l \in {LevelDebug, LevelInfo, LevelError} : LevelVarSet(l)
  \/ \E i \in 1..MaxHandlers, l \in Levels : Enabled(i, l)

SpecLevel == InitLevel /\ [][NextLevel]_vars

\* one goroutine logging through handlers nested in the groups a and b
PathNames == {"", "a", "b"}

NextGroup == NextOver({"t1"}, Records, BindLists, PathNames)

SpecGroup == Init /\ [][NextGroup]_vars

\* two goroutines logging through the base handler and handlers derived from it by
\* WithAttrs, their steps scheduled fairly: a goroutine that can run does run,
\* every Write returns, and a goroutine blocked in Lock gets the mutex if it is free again
\* and again (sync.Mutex hands the lock to a starving waiter)
\* the steps of Handle in which the goroutine t does not wait for another goroutine
HandleRun(t) ==
  \/ HandleCompose(t)
  \/ HandleWrite(t)
  \/ \E e \in {ErrNil, ErrWrite} : HandleWriteReturn(t, e)
  \/ HandleUnlock(t)
  \/ HandlePut(t)

LiveRecords == {[Level |-> LevelWarn, Time |-> ZeroTime, PC |-> 0, Message |-> "retry", Attrs |-> <<>>]}

NextLive ==
  \/ WithAttrs(1, <<aService>>)
  \/ \E t \in Threads, i \in 1..MaxHandlers, r \in LiveRecords : HandleGet(t, i, r)
  \/ \E t \in Threads : HandleLock(t)
  \/ \E t \in Threads : HandleRun(t)

Fairness == \A t \in Threads : SF_vars(HandleLock(t)) /\ WF_vars(HandleRun(t))

SpecLive == Init /\ [][NextLive]_vars /\ Fairness

(* ------------------------------- claims -------------------------------- *)

\* the goroutines whose buffer holds a composed line that is being or about to be written
Composed(t) == pc[t] \in {"write", "inwrite"}

\* C1: a bound attribute is rendered with the group path that was active when it was
\* bound, so WithGroup(name) leaves the rendering of the attributes bound so far unchanged:
\* in the line Handle composes on the handler WithGroup has just returned, the bound
\* attributes read as the receiver of WithGroup renders them (only the attributes of the
\* record carry the new group).
C1_BoundKeepBindTimePath ==
  \A t \in Threads :
    (Composed(t) /\ call.op = "WithGroup" /\ call.name # "" /\ hid[t] = call.res) =>
      LET h == handlers[call.res]
          parent == handlers[call.recv]
          b3 == HandleSource(h, rec[t], HandleLevel(h, rec[t], HandleTime(h, rec[t], <<>>)))
          b5 == HandleMsg(rec[t], HandleBound(parent, b3))
      IN buf[t] = HandleCall(h, rec[t], b5) \o <<"\n">>

\* C2: at no time are two Write calls to one destination in progress.
C2_WritesSerialized == \A d \in DOMAIN writing : Cardinality(writing[d]) <= 1

\* the text `[<group.>...]<key>=<value>` of one attribute, empty when it is dropped
AttrText(opts, groups, a) ==
  LET x == appendAttr(opts, <<>>, groups, a) IN IF x = <<>> THEN <<>> ELSE Tail(x)

RECURSIVE FormatBound(_, _, _)
\* `<bound-attrs...> `: every bound attribute followed by one space
FormatBound(opts, groups, attrs) ==
  IF attrs = <<>>
    THEN <<>>
    ELSE LET x == AttrText(opts, groups, Head(attrs))
         IN (IF x = <<>> THEN <<>> ELSE x \o <<" ">>) \o FormatBound(opts, groups, Tail(attrs))

RECURSIVE FormatCall(_, _, _)
\* `[ <call-attrs...>]`: every attribute of the record preceded by one space
FormatCall(opts, groups, attrs) ==
  IF attrs = <<>>
    THEN <<>>
    ELSE LET x == AttrText(opts, groups, Head(attrs))
         IN (IF x = <<>> THEN <<>> ELSE <<" ">> \o x) \o FormatCall(opts, groups, Tail(attrs))

\* `[<timestamp> ]<LEVEL> [source=<file>:<line> ]<bound-attrs...> msg=<message>[ <call-attrs...>]\n`
FormatLine(h, r) ==
  HandleTime(h, r, <<>>) \o <<LevelString(r.Level), " ">> \o HandleSource(h, r, <<>>)
    \o FormatBound(h.opts, h.groups, h.attrs)
    \o <<"msg=", r.Message>>
    \o FormatCall(h.opts, h.groups, r.Attrs)
    \o <<"\n">>

\* C3: every line Handle writes has the documented form; with bound attributes, one
\* space separates the level from the first of them and one space the last of them from msg=.
C3_LineFormat ==
  \A t \in Threads : Composed(t) => buf[t] = FormatLine(handlers[hid[t]], rec[t])

\* C4: WithAttrs and WithGroup (and every other step) leave the group path, the bound
\* attributes and the options of every existing handler unchanged; the line of a record
\* is a function of these three (HandleLine), so it stays the same.
C4_WithNeverMutates ==
  [][/\ Len(handlers') >= Len(handlers)
     /\ \A i \in 1..Len(handlers) :
          /\ handlers'[i].groups = handlers[i].groups
          /\ handlers'[i].attrs = handlers[i].attrs
          /\ handlers'[i].opts = handlers[i].opts]_vars

\* C4 witness: a handler with bound attributes was the receiver of a further WithAttrs
\* while a Handle call is writing
C4_Witness ==
  /\ call.op = "WithAttrs" /\ call.recv = 2 /\ call.res = 3
  /\ handlers[2].attrs # <<>>
  /\ \E t \in Threads : pc[t] = "inwrite"

\* C5: WithAttrs with no attributes and WithGroup with the empty name return the handler
\* they were called on and allocate no handler.
C5_EmptyReturnsReceiver ==
  [][\A i \in 1..Len(handlers) :
       (WithAttrs(i, <<>>) \/ WithGroup(i, "")) => (call'.res = i /\ handlers' = handlers)]_vars

\* C5 witness: WithGroup("") has returned on a derived handler
C5_Witness ==
  /\ call.op = "WithGroup" /\ call.name = "" /\ call.recv = 2
  /\ Len(handlers) >= 2

RECURSIVE Rewritten(_, _, _)
\* the attributes as the hook leaves them: substitutes in place, dropped ones removed
Rewritten(hook, groups, attrs) ==
  IF attrs = <<>>
    THEN <<>>
    ELSE LET a == ReplaceAttr(hook, groups, Head(attrs))
         IN (IF IsEmptyAttr(a) THEN <<>> ELSE <<a>>) \o Rewritten(hook, groups, Tail(attrs))

\* C6: with a ReplaceAttr hook the line is the line of a handler without hook whose bound
\* and per-call attributes are the hook's results, the dropped ones left out: a dropped
\* attribute leaves no byte and no other attribute changes.
C6_HookDropsExactly ==
  \A t \in Threads :
    (Composed(t) /\ handlers[hid[t]].opts.ReplaceAttr # HookNil) =>
      LET h == handlers[hid[t]]
          hook == h.opts.ReplaceAttr
          h0 == [h EXCEPT !.opts.ReplaceAttr = HookNil, !.attrs = Rewritten(hook, h.groups, h.attrs)]
          r0 == [rec[t] EXCEPT !.Attrs = Rewritten(hook, h.groups, rec[t].Attrs)]
      IN buf[t] = HandleLine(h0, r0, <<>>)

\* C6 witness: a line is composed with the dropping hook, a bound password and a per-call password
C6_Witness ==
  \E t \in Threads :
    /\ Composed(t)
    /\ handlers[hid[t]].opts.ReplaceAttr = HookDrop
    /\ \E k \in 1..Len(handlers[hid[t]].attrs) : handlers[hid[t]].attrs[k] = aPassword
    /\ \E k \in 1..Len(rec[t].Attrs) : rec[t].Attrs[k] = aPassword

\* a group value with zero entries
IsEmptyGroup(a) == a.val.kind = "Group" /\ a.val.grp = <<>>

\* C7: an attribute whose value is a group with zero entries contributes zero bytes: the
\* line equals the line for the same handler and record without that attribute.
C7_EmptyGroupNoBytes ==
  \A t \in Threads :
    Composed(t) =>
      LET h == handlers[hid[t]]
          h0 == [h EXCEPT !.attrs = SelectSeq(h.attrs, LAMBDA a : ~IsEmptyGroup(a))]
          r0 == [rec[t] EXCEPT !.Attrs = SelectSeq(rec[t].Attrs, LAMBDA a : ~IsEmptyGroup(a))]
      IN buf[t] = HandleLine(h0, r0, <<>>)

\* the goroutines inside a Handle call
InFlight(t) == pc[t] \notin {"idle", "done"}

\* C8: a Handle call holds its buffer until it puts it back exactly once before it
\* returns, also after a failed Write; when no call is in flight no buffer is outstanding.
C8_BufferReturned ==
  /\ \A t \in Threads :
       /\ InFlight(t) => (bufp[t] \in 1..nbuf /\ bufp[t] \notin pool /\ nput[t] = 0)
       /\ pc[t] = "done" => (bufp[t] = 0 /\ nput[t] = 1)
  /\ (\A t \in Threads : ~InFlight(t)) => pool = 1..nbuf

\* C8 witness: every goroutine has returned from Handle, one of them after a failed Write
C8_Witness ==
  /\ \A t \in Threads : pc[t] = "done"
  /\ \E t \in Threads : werr[t] = ErrWrite
  /\ nbuf >= 1

\* C9: a Handle call passes the complete line to Write exactly once and returns exactly
\* what Write returned; after a failed Write it writes nothing more.
C9_OneWriteErrorReturned ==
  \A t \in Threads :
    /\ pc[t] = "inwrite" =>
         (nwrite[t] = 1 /\ buf[t] = HandleLine(handlers[hid[t]], rec[t], <<>>)
            /\ buf[t][Len(buf[t])] = "\n")
    /\ pc[t] \in {"unlock", "put", "done"} => (nwrite[t] = 1 /\ ret[t] = werr[t])

\* C9 witness: a Handle call has returned the error of its failed Write
C9_Witness == \E t \in Threads : pc[t] = "done" /\ werr[t] = ErrWrite /\ ret[t] = ErrWrite /\ nwrite[t] = 1

\* C10: a handler made by New with Options.TimeFormat = "" writes no timestamp: every
\* line starts with the level name.
C10_EmptyTimeFormatNoTimestamp ==
  \A t \in Threads :
    (Composed(t) /\ options.TimeFormat = "") => buf[t][1] = LevelString(rec[t].Level)

\* the threshold the caller configured: Info without a Level option, else the constant,
\* else the level most recently stored in the LevelVar
Threshold ==
  CASE options.Level.kind = "nil" -> LevelInfo
    [] options.Level.kind = "level" -> options.Level.level
    [] options.Level.kind = "var" -> levelVar

\* C11: every Enabled call, on the base handler or a derived one, before or after a
\* LevelVar.Set, returns true exactly when the level is at least the threshold in force
\* at the time of the call.
C11_EnabledRereadsLevel ==
  [][\A i \in 1..Len(handlers), l \in Levels :
       Enabled(i, l) => (enabled'.res <=> l >= Threshold)]_vars

\* C11 witness: after the LevelVar was lowered to Debug, Enabled(Debug) on a derived
\* handler has returned true
C11_Witness ==
  /\ options.Level = LevelerVar
  /\ levelVar = LevelDebug
  /\ enabled.recv > 1 /\ enabled.level = LevelDebug /\ enabled.res

\* the position of the msg= field in a line
MsgPos(line) == CHOOSE p \in 1..Len(line) : line[p] = "msg=" /\ \A q \in 1..(p - 1) : line[q] # "msg="

\* how many group values are open in front of position p
Depth(line, p) ==
  Cardinality({q \in 1..(p - 1) : line[q] = "{"}) - Cardinality({q \in 1..(p - 1) : line[q] = "}"})

\* the positions from lo to hi that hold the key of a top-level attribute
KeyPositions(line, lo, hi) ==
  {p \in lo..hi : p < Len(line) /\ line[p + 1] = "=" /\ Depth(line, p) = 0}

RECURSIVE TokensAt(_, _)
\* the tokens at the positions P, in line order
TokensAt(line, P) ==
  IF P = {}
    THEN <<>>
    ELSE LET p == CHOOSE x \in P : \A y \in P : x <= y
         IN <<line[p]>> \o TokensAt(line, P \ {p})

\* the keys of a sequence of attributes, in order
KeysOf(attrs) == [k \in 1..Len(attrs) |-> attrs[k].key]

\* C12: WithAttrs(A) gives a handler whose bound attributes are the receiver's followed by
\* A and WithGroup keeps them, so a chain binds A1 ++ ... ++ An; every line carries the
\* keys of the bound attributes (those the hook does not drop) in binding order,
\* duplicates included, all in front of msg=.
C12_BoundInBindingOrder ==
  /\ (call.op = "WithAttrs" /\ call.attrs # <<>>) =>
       handlers[call.res].attrs = handlers[call.recv].attrs \o call.attrs
  /\ call.op = "WithGroup" => handlers[call.res].attrs = handlers[call.recv].attrs
  /\ \A t \in Threads :
       Composed(t) =>
         LET h == handlers[hid[t]]
         IN TokensAt(buf[t], KeyPositions(buf[t], 1, MsgPos(buf[t]) - 1))
              = KeysOf(Rewritten(h.opts.ReplaceAttr, h.groups, h.attrs))

\* C12 witness: a line is composed on a handler made by two WithAttrs calls that bound the
\* same key twice
C12_Witness ==
  \E t \in Threads :
    /\ Composed(t)
    /\ call.op = "WithAttrs" /\ hid[t] = call.res
    /\ handlers[hid[t]].attrs = <<aService, aService>>

\* the positions of a token in a line
PositionsOf(line, tok) == {p \in 1..Len(line) : line[p] = tok}

\* C13: in every line Handle composes the fields come in this order: the timestamp, there
\* exactly when the record's time is set and the handler has a time format; the level
\* name; source=<file>:<line>, there exactly when AddSource is on and the record has a
\* location; the bound attributes; msg= and the message as it is; the attributes of the
\* record in the order supplied; and one line terminator, the last element of the line.
C13_FieldOrder ==
  \A t \in Threads :
    Composed(t) =>
      LET line == buf[t]
          h == handlers[hid[t]]
          r == rec[t]
          hook == h.opts.ReplaceAttr
          timed == h.opts.TimeFormat # "" /\ ~IsZero(r.Time)
          ts == appendTime(h.opts, <<>>, r.Time)
          lv == IF timed THEN Len(ts) + 2 ELSE 1
          located == h.opts.AddSource /\ r.PC # 0 /\ FrameOf(r.PC).File # ""
          m == MsgPos(line)
          src == AppendInt(<<"source=", FrameOf(r.PC).File, ":">>, FrameOf(r.PC).Line)
          first == IF located THEN lv + 2 + Len(src) ELSE lv + 2
      IN /\ timed => (SubSeq(line, 1, Len(ts)) = ts /\ ts # <<>>)
         /\ line[lv] = LevelString(r.Level)
         /\ PositionsOf(line, LevelString(r.Level)) = {lv}
         /\ PositionsOf(line, "source=") = IF located THEN {lv + 2} ELSE {}
         /\ located => SubSeq(line, lv + 2, lv + 1 + Len(src)) = src
         /\ TokensAt(line, KeyPositions(line, first, m - 1)) = KeysOf(Rewritten(hook, h.groups, h.attrs))
         /\ KeyPositions(line, 1, first - 1) = {}
         /\ m >= first
         /\ line[m + 1] = r.Message
         /\ TokensAt(line, KeyPositions(line, m + 2, Len(line))) = KeysOf(Rewritten(hook, h.groups, r.Attrs))
         /\ PositionsOf(line, "\n") = {Len(line)}

\* C13 witness: a line with timestamp, source location, a bound attribute and two
\* attributes of the record is composed
C13_Witness ==
  \E t \in Threads :
    /\ Composed(t)
    /\ handlers[hid[t]].opts.TimeFormat = ClockTimeFormat /\ ~IsZero(rec[t].Time)
    /\ handlers[hid[t]].opts.AddSource /\ rec[t].PC = 1
    /\ handlers[hid[t]].attrs = <<aService>>
    /\ rec[t].Attrs = <<aMethod, aPath>>

\* a group path as it is written in front of a key: every segment followed by "."
Dotted(groups) == [k \in 1..(2 * Len(groups)) |-> IF k % 2 = 1 THEN groups[(k + 1) \div 2] ELSE "."]

\* C14: WithGroup(name) with a non-empty name gives the receiver's path followed by name,
\* WithGroup("") and WithAttrs keep the path, so the path of a handler is the non-empty
\* names in the order entered whatever was bound in between; in every line each attribute
\* of the record has, between its separator and its key, every segment of the path of
\* the handler followed by ".".
C14_GroupPath ==
  /\ (call.op = "WithGroup" /\ call.name # "") =>
       handlers[call.res].groups = handlers[call.recv].groups \o <<call.name>>
  /\ (call.op = "WithGroup" /\ call.name = "") => call.res = call.recv
  /\ call.op = "WithAttrs" => handlers[call.res].groups = handlers[call.recv].groups
  /\ \A t \in Threads :
       Composed(t) =>
         LET line == buf[t]
             path == Dotted(handlers[hid[t]].groups)
             keys == KeyPositions(line, MsgPos(line) + 2, Len(line))
         IN /\ Cardinality(keys) = Len(rec[t].Attrs)
            /\ \A p \in keys :
                 /\ SubSeq(line, p - Len(path), p - 1) = path
                 /\ line[p - Len(path) - 1] = " "

\* C14 witness: a line is composed on New(...).WithGroup("a").WithGroup("b")
C14_Witness ==
  \E t \in Threads :
    /\ Composed(t)
    /\ handlers[hid[t]].groups = <<"a", "b">>
    /\ rec[t].Attrs # <<>>

\* C15: two Handle calls in flight never hold the same scratch buffer, on one handler or
\* on handlers that share the pool, a held buffer is not in the pool, and a call starts
\* with its buffer at length zero whatever the buffer held when it was put back.
C15_BufferNotShared ==
  /\ \A t1 \in Threads, t2 \in Threads :
       (t1 # t2 /\ InFlight(t1) /\ InFlight(t2)) => bufp[t1] # bufp[t2]
  /\ \A t \in Threads :
       /\ InFlight(t) => (bufp[t] \in 1..nbuf /\ bufp[t] \notin pool)
       /\ pc[t] \in {"lock", "compose"} => Len(buf[t]) = 0

\* C15 witness: a call on the base handler and a call on a handler derived from it have
\* both composed their line, each in its own buffer of the shared pool
C15_Witness ==
  \E t1 \in Threads, t2 \in Threads :
    /\ Composed(t1) /\ Composed(t2)
    /\ hid[t1] = 1 /\ hid[t2] > 1
    /\ handlers[hid[t1]].pool = handlers[hid[t2]].pool
    /\ bufp[t1] # bufp[t2]

\* a call has started on a buffer that was put back with a line in it
C15_Reused == \E t \in Threads : pc[t] = "lock" /\ Len(slices[bufp[t]]) > 0

\* the events of one kind in a trace, in order
EventsOf(tr, kind) == SelectSeq(tr, LAMBDA e : e.ev = kind)

\* C16: in one Handle call on a handler with a ReplaceAttr hook, the hook is called once
\* for each bound attribute and each attribute of the record, in that order and with that
\* attribute; what is encoded is what the hook returned, and it is encoded right after
\* the call; the level and the message are encoded without a hook call.
C16_HookOncePerAttr ==
  \A t \in Threads :
    (Composed(t) /\ handlers[hid[t]].opts.ReplaceAttr # HookNil) =>
      LET h == handlers[hid[t]]
          tr == trace[t]
          hooks == EventsOf(tr, "hook")
          all == h.attrs \o rec[t].Attrs
      IN /\ [k \in 1..Len(hooks) |-> hooks[k].arg] = all
         /\ \A p \in 1..Len(tr) :
              /\ tr[p].ev = "encode" =>
                   /\ p > 1 /\ tr[p - 1].ev = "hook"
                   /\ tr[p].arg = ReplaceAttr(h.opts.ReplaceAttr, h.groups, tr[p - 1].arg)
              /\ tr[p].ev \in {"level", "msg"} => (p = Len(tr) \/ tr[p + 1].ev # "encode")
         /\ Len(EventsOf(tr, "level")) = 1 /\ Len(EventsOf(tr, "msg")) = 1
         /\ Len(EventsOf(tr, "encode")) = Len(Rewritten(h.opts.ReplaceAttr, h.groups, all))

\* C16 witness: a line is composed with the masking hook on a handler with a bound
\* password and a record that carries a password
C16_Witness ==
  \E t \in Threads :
    /\ Composed(t)
    /\ handlers[hid[t]].opts.ReplaceAttr = HookMask
    /\ \E k \in 1..Len(handlers[hid[t]].attrs) : handlers[hid[t]].attrs[k] = aPassword
    /\ \E k \in 1..Len(rec[t].Attrs) : rec[t].Attrs[k] = aPassword
    /\ Len(EventsOf(trace[t], "hook")) = Len(handlers[hid[t]].attrs) + Len(rec[t].Attrs)

RECURSIVE Sorted(_)
\* a set of positions as an increasing sequence
Sorted(P) ==
  IF P = {}
    THEN <<>>
    ELSE LET p == CHOOSE x \in P : \A y \in P : x <= y IN <<p>> \o Sorted(P \ {p})

RECURSIVE ValueText(_)
RECURSIVE JoinEntries(_)
\* the documented text of a value; a group with entries is `{k1=v1 k2=v2 ...}`
ValueText(v) ==
  CASE v.kind = "Group" -> <<"{">> \o JoinEntries(v.grp) \o <<"}">>
    [] v.kind = "Int64" -> AppendInt(<<>>, v.num)
    [] OTHER -> <<v.str>>

\* the entries of a group as key=value, one space between two entries
JoinEntries(as) ==
  LET e == <<Head(as).key, "=">> \o ValueText(Head(as).val)
  IN IF Len(as) = 1 THEN e ELSE e \o <<" ">> \o JoinEntries(Tail(as))

\* C17: in every line, an attribute of the record whose value is a group with at least
\* one entry reads key={k1=v1 k2=v2 ...}: the entries as key=value with one space between
\* two of them and none before the closing brace, a nested group by the same rule; the
\* next separator or the line terminator follows the closing brace.
C17_GroupEncoding ==
  \A t \in Threads :
    Composed(t) =>
      LET line == buf[t]
          h == handlers[hid[t]]
          attrs == Rewritten(h.opts.ReplaceAttr, h.groups, rec[t].Attrs)
          keys == Sorted(KeyPositions(line, MsgPos(line) + 2, Len(line)))
      IN /\ Len(keys) = Len(attrs)
         /\ \A k \in 1..Len(attrs) :
              (attrs[k].val.kind = "Group" /\ Len(attrs[k].val.grp) >= 1) =>
                LET text == ValueText(attrs[k].val)
                    p == keys[k]
                IN /\ SubSeq(line, p + 2, p + 1 + Len(text)) = text
                   /\ line[p + 2 + Len(text)] \in {" ", "\n"}

\* C17 witness: the line of a record with user={id=7 role={admin=true}} is composed
C17_Witness ==
  \E t \in Threads :
    /\ Composed(t)
    /\ \E k \in 1..Len(rec[t].Attrs) : rec[t].Attrs[k] = aUser
    /\ \E p \in 1..Len(buf[t]) :
         SubSeq(buf[t], p, p + 14) =
           <<"user", "=", "{", "id", "=", "7", " ", "role", "=", "{", "admin", "=", "true", "}", "}">>

\* the goroutines between h.mu.Lock() and the deferred h.mu.Unlock() of the handler i
Holding(i) == {t \in Threads : hid[t] = i /\ pc[t] \in {"compose", "write", "inwrite", "unlock"}}

\* C18: on each Handler at most one Handle call is between Lock and Unlock, and it is the
\* one the mutex records; a call issues its one Write inside that section, so two Writes
\* through one Handler never overlap and the Writes follow the order of the Lock calls:
\* when a call is at or in its Write, every other call on the Handler either has not got
\* the lock yet or has written and released it.
C18_OneHolderPerHandler ==
  \A i \in 1..Len(handlers) :
    /\ Cardinality(Holding(i)) <= 1
    /\ Holding(i) = IF handlers[i].mu = NoThread THEN {} ELSE {handlers[i].mu}
    /\ \A t \in Holding(i) :
         /\ pc[t] \in {"compose", "write"} => nwrite[t] = 0
         /\ pc[t] \in {"inwrite", "unlock"} => nwrite[t] = 1
         /\ \A u \in Threads \ {t} :
              hid[u] = i => (pc[u] = "lock" /\ nwrite[u] = 0) \/ (pc[u] = "put" /\ nwrite[u] = 1)
    /\ Cardinality({t \in Threads : hid[t] = i /\ pc[t] = "inwrite"}) <= 1

\* C18 witness: one call is inside Write while another call on the same Handler waits for
\* the lock
C18_Witness ==
  \E t \in Threads, u \in Threads :
    /\ t # u /\ hid[t] = hid[u]
    /\ pc[t] = "inwrite" /\ pc[u] = "lock"
    /\ handlers[hid[t]].mu = t

\* C19: a goroutine holds a handler's mutex only between Lock and the deferred Unlock,
\* whatever Write returned; with every Write returning, every Handle call returns and
\* every call waiting in Lock gets the lock.
C19_HandleReturns ==
  /\ [](\A i \in 1..Len(handlers) :
          handlers[i].mu # NoThread =>
            (hid[handlers[i].mu] = i /\ pc[handlers[i].mu] \in {"compose", "write", "inwrite", "unlock"}))
  /\ \A t \in Threads :
       /\ InFlight(t) ~> (pc[t] = "done")
       /\ (pc[t] = "lock") ~> (pc[t] = "compose")

\* C19 witness: a call whose Write failed has released the lock, and another call on the
\* same Handler has got it
C19_Witness ==
  \E t \in Threads, u \in Threads :
    /\ t # u /\ hid[t] = hid[u]
    /\ pc[t] = "put" /\ werr[t] = ErrWrite /\ ret[t] = ErrWrite
    /\ pc[u] = "compose" /\ handlers[hid[u]].mu = u

====
